---- MODULE Spec2Model ----
(***************************************************************************)
(* Booking service of the conference-room booking platform: the request    *)
(* handlers of booking.controller.js (createBooking, getBookingById,       *)
(* cancelBooking, deleteUserBookings), the validation middleware of        *)
(* booking.routes.js, the Booking model (the ledger) and the SQS           *)
(* notification dispatch; with them getUserBookings and checkAvailability, *)
(* the email worker that consumes the queue (polling loop and Lambda       *)
(* handler) and getRoomById and deleteRoom of the rooms service.           *)
(*                                                                         *)
(* Every `await` of a handler is a scheduling point: the code between two  *)
(* awaits is one atomic action, and the external effect of the awaited     *)
(* call (a MongoDB query, an HTTP reply, an SQS send) happens in the       *)
(* action that resumes the handler.                                        *)
(*                                                                         *)
(* Units: instants are hours since the epoch (UTC); a calendar day D is    *)
(* the instants 24*D .. 24*D+23.  Money is in thousandths of a currency    *)
(* unit (mils), temperatures in hundredths of a degree Celsius.            *)
(*                                                                         *)
(* Environment assumptions: the JWT of every request is valid, MongoDB     *)
(* answers every query, and base prices carry two decimals (the column is  *)
(* DECIMAL(10,2)), so that toFixed(2) rounds exact decimal values.         *)
(***************************************************************************)
EXTENDS Integers, FiniteSets, Sequences, Bags, TLC

VARIABLES
    now,            \* the server clock, in hours
    tz,             \* the server's timezone offset from UTC, in hours
    sqsConfigured,  \* SQS_QUEUE_URL is set
    ledger,         \* the bookings collection: a set of booking documents
    nextId,         \* the next fresh bookingId (uuidv4)
    queue,          \* the SQS queue: a bag of messages
    started,        \* the number of requests received so far
    pc,             \* per request handler: where it is suspended
    req,            \* per request handler: the request being served
    local,          \* per request handler: the handler's local variables
    resp,           \* the response the last step sent, with its request
    quote,          \* the last call of calculateDynamicPrice on its own
    worker,         \* the email worker: its mode, position and batch
    deactivated     \* the rooms whose is_active is false

vars ==
    <<now, tz, sqsConfigured, ledger, nextId, queue, started, pc, req, local, resp,
      quote, worker, deactivated>>

-----------------------------------------------------------------------------
(* Bounds of the model *)

MaxBookings == 2
MaxRequests == 3
\* The calendar of the availability runs: days in a month
MonthDays == 2
\* Messages in the queue of the worker runs
MaxQueue == 2
MaxTicks == 1

(* Program constants, in the model's units *)

\* 21 degrees Celsius, in hundredths of a degree
OPTIMAL_TEMPERATURE == 2100
\* 0.5 currency units per degree = 5 mils per hundredth of a degree
PRICE_ADJUSTMENT_PER_DEGREE == 5
\* 0.1 of the base price: the base price divided by 10
FALLBACK_SURCHARGE_PERCENT == 10
\* .limit(50) of getUserBookings
LIMIT == 50
\* MaxNumberOfMessages of the worker's receiveMessages
MAX_MESSAGES == 10
\* axios.get(url, { timeout: 5000 }) of the weather lookup, in milliseconds;
\* 0 is axios' "no timeout"
WEATHER_TIMEOUT == 5000

-----------------------------------------------------------------------------
(* Input sets *)

Proc == {"h1", "h2"}

Nil == "nil"

\* The users table: role of every user id (the JWT carries userId and role).
UserRole == [u1 |-> "user", u2 |-> "admin"]
Users == DOMAIN UserRole

\* The conference_rooms table joined with locations, as getRoomById reads it.
RoomTable ==
    [r1 |-> [roomId |-> "r1", locationId |-> "l1", basePrice |-> 100000],
     r2 |-> [roomId |-> "r2", locationId |-> "l2", basePrice |-> 50000]]

\* Room ids a request may carry: the rooms of the table, a well-formed id
\* of no room, and a malformed id.
RoomIds == {"r1", "r2", "r9", "bad"}

\* Booking dates a request may carry: day numbers (YYYY-MM-DD), and 0 for a
\* string that is no ISO 8601 date.
ReqDates == 0 .. 2

TZOffsets == {-5, 0, 2}

\* Replies of the weather provider: an error or timeout, or a body whose
\* temperature is a number, an object {current: number}, absent, null, or
\* something that is not a number.
WeatherReplies ==
    {[kind |-> "error", t |-> 0],
     [kind |-> "flat", t |-> 3100],
     [kind |-> "nested", t |-> 3100],
     [kind |-> "missing", t |-> 0],
     [kind |-> "null", t |-> 0],
     [kind |-> "nonnum", t |-> 0]}

\* The inputs of the concurrent runs
ConcRoomIds == {"r1", "r2"}

ConcDates == {2}

ConcWeather == {[kind |-> "error", t |-> 0]}

\* The inputs of the pricing runs: a temperature of 21.01 degrees, whose
\* adjustment is half a cent, besides 31 degrees, 11 degrees and a failure
TieWeather ==
    {[kind |-> "error", t |-> 0],
     [kind |-> "flat", t |-> 3100],
     [kind |-> "flat", t |-> 1100],
     [kind |-> "flat", t |-> 2101]}

\* Base prices (two decimals, in mils) and weather samples given to
\* calculateDynamicPrice on its own
BasePrices == {0, 150, 50000, 100000, 100050, 149950}

Temperatures == {-1997, -500, 1100, 2099, 2100, 2101, 3001, 3100, 3500}

WeatherSamples ==
    {{}} \cup {{[tkind |-> k, t |-> 0]} : k \in {"undefined", "null", "nonnum"}}
         \cup {{[tkind |-> "num", t |-> t]} : t \in Temperatures}

\* The inputs of the availability runs: the last day of month 0 and the
\* first day of month 1
AvailDates == {2, 3}

Months == {0, 1}

\* The inputs of the listing runs: the filters of a query, and the sizes
\* of the ledger the service starts with
StatusFilters == {{}, {"confirmed"}, {"cancelled"}}

DateFilters == {{}, {2}, {30}}

LedgerSizes == {0, 3, 70}

The(S) == CHOOSE x \in S : TRUE

-----------------------------------------------------------------------------
(* Dates: JavaScript's Date on day-granular strings *)

\* new Date("YYYY-MM-DD"): midnight UTC of that day
ParseDate(d) == d * 24

\* date.setHours(0, 0, 0, 0): midnight, in the server's timezone, of the
\* local day the instant lies in
SetHoursZero(t) == ((t + tz) \div 24) * 24 - tz

\* date.toISOString().split('T')[0]: the UTC calendar day of the instant
ToISODate(t) == t \div 24

\* The calendar: month m is the days m * MonthDays + 1 .. (m + 1) * MonthDays
FirstDay(month) == month * MonthDays + 1

\* new Date(year, monthIndex, day): midnight of that day in the server's
\* timezone; day 0 is the last day of the month before
LocalDate(month, day) == (FirstDay(month) + day - 1) * 24 - tz

\* const today = new Date(); today.setHours(0, 0, 0, 0)
Today == SetHoursZero(now)

-----------------------------------------------------------------------------
(* Validation middleware of POST /api/bookings *)

isValidUUID(roomId) == roomId # "bad"

isISO8601(d) == d >= 1

\* The validation chain without its custom past-date check
createBookingValidationNoPast(roomId, bookingDate) ==
    /\ isValidUUID(roomId)
    /\ isISO8601(bookingDate)

createBookingValidation(roomId, bookingDate) ==
    /\ isValidUUID(roomId)
    /\ isISO8601(bookingDate)
    /\ ~(ParseDate(bookingDate) < Today)

-----------------------------------------------------------------------------
(* Pricing *)

\* The difference itself, without Math.abs
Signed(x) == x

Abs(x) == IF x < 0 THEN -x ELSE x

\* parseFloat(x.toFixed(2)) of a non-negative double whose decimal value is
\* x mils.  toFixed rounds the binary value of the double to the nearest
\* hundredth.  A value that is no decimal tie rounds as its decimal value
\* does.  A decimal tie (x ends in 5) is in general no double: the double
\* the computation produced lies just below or just above it, and `below`
\* says which.
toFixed2(x, below) ==
    IF x % 10 = 5 /\ below THEN (x \div 10) * 10
                           ELSE ((x + 5) \div 10) * 10

\* IEEE 754 binary64 arithmetic (round to nearest, ties to even) on the
\* inputs of the model: the decimal ties, among the amounts these inputs
\* give, whose double lies below the tie.
\* Math.abs(temperature - 21) * 0.5, by temperature
AdjustmentBelow == {-1997}

\* basePrice + adjustment, by basePrice and temperature
SumBelow ==
    {<<0, -1997>>, <<150, -1997>>, <<50000, -1997>>, <<100000, -1997>>,
     <<100050, -1997>>,
     <<100000, 2099>>, <<100050, 2099>>, <<149950, 2099>>,
     <<100000, 2101>>, <<100050, 2101>>, <<149950, 2101>>,
     <<100000, 3001>>, <<100050, 3001>>, <<149950, 3001>>}

\* basePrice * 0.1, by basePrice
SurchargeBelow == {150, 149950}

\* basePrice + basePrice * 0.1, by basePrice
SurchargedBelow == {150, 100050, 149950}

NullTemp == [tkind |-> "null", t |-> 0]

\* getWeatherForecast: the weatherData the handler gets for a provider
\* reply: null on any failure, otherwise the body's temperature read as
\* data.temperature?.current || data.temperature
getWeatherForecast(reply) ==
    CASE reply.kind = "error" -> {}
      [] reply.kind = "flat" -> {[tkind |-> "num", t |-> reply.t]}
      [] reply.kind = "nested" ->
            IF reply.t # 0 THEN {[tkind |-> "num", t |-> reply.t]}
                           ELSE {[tkind |-> "nonnum", t |-> 0]}
      [] reply.kind = "missing" -> {[tkind |-> "undefined", t |-> 0]}
      [] reply.kind = "null" -> {NullTemp}
      [] OTHER -> {[tkind |-> "nonnum", t |-> 0]}

\* A pricing whose fallback forgets the surcharge
calculateDynamicPriceNoSurcharge(basePrice, weatherData) ==
    IF weatherData = {} \/ The(weatherData).tkind = "undefined"
    THEN [finalPrice |-> toFixed2(basePrice, FALSE),
          weatherAdjustment |-> 0,
          nan |-> FALSE,
          forecastedTemp |-> NullTemp,
          weatherCondition |-> Nil,
          fallbackUsed |-> TRUE]
    ELSE LET temperature == The(weatherData)
             adjustment ==
                 Abs(temperature.t - OPTIMAL_TEMPERATURE) * PRICE_ADJUSTMENT_PER_DEGREE
         IN  [finalPrice |-> toFixed2(basePrice + adjustment,
                                      <<basePrice, temperature.t>> \in SumBelow),
              weatherAdjustment |-> toFixed2(adjustment,
                                             temperature.t \in AdjustmentBelow),
              nan |-> temperature.tkind = "nonnum",
              forecastedTemp |-> temperature,
              weatherCondition |-> "clear",
              fallbackUsed |-> FALSE]

\* calculateDynamicPrice(basePrice, weatherData); weatherData is {} for
\* null and {temperature} otherwise.  nan marks NaN amounts.
calculateDynamicPrice(basePrice, weatherData) ==
    IF weatherData = {} \/ The(weatherData).tkind = "undefined"
    THEN LET adjustment == basePrice \div FALLBACK_SURCHARGE_PERCENT
         IN  [finalPrice |-> toFixed2(basePrice + adjustment,
                                      basePrice \in SurchargedBelow),
              weatherAdjustment |-> toFixed2(adjustment,
                                             basePrice \in SurchargeBelow),
              nan |-> FALSE,
              forecastedTemp |-> NullTemp,
              weatherCondition |-> Nil,
              fallbackUsed |-> TRUE]
    ELSE LET temperature == The(weatherData)
             \* null - 21 is -21; a non-number gives NaN
             tempDifference == Abs(temperature.t - OPTIMAL_TEMPERATURE)
             adjustment == tempDifference * PRICE_ADJUSTMENT_PER_DEGREE
         IN  IF temperature.tkind = "nonnum"
             THEN [finalPrice |-> 0,
                   weatherAdjustment |-> 0,
                   nan |-> TRUE,
                   forecastedTemp |-> temperature,
                   weatherCondition |-> "clear",
                   fallbackUsed |-> FALSE]
             ELSE [finalPrice |-> toFixed2(basePrice + adjustment,
                                      <<basePrice, temperature.t>> \in SumBelow),
                   weatherAdjustment |-> toFixed2(adjustment,
                                             temperature.t \in AdjustmentBelow),
                   nan |-> FALSE,
                   forecastedTemp |-> temperature,
                   weatherCondition |-> "clear",
                   fallbackUsed |-> FALSE]

-----------------------------------------------------------------------------
(* The ledger: the Booking model *)

\* The availability query without its status filter
findActiveAnyStatus(L, roomId, bookingDateObj) ==
    {b \in L : b.roomId = roomId /\ b.bookingDate = bookingDateObj}

\* Booking.findOne({roomId, bookingDate, status: {$ne: 'cancelled'}})
findActive(L, roomId, bookingDateObj) ==
    {b \in L : /\ b.roomId = roomId
               /\ b.bookingDate = bookingDateObj
               /\ b.status # "cancelled"}

\* Booking.findOne({bookingId: id})
findById(L, id) == {b \in L : b.bookingId = id}

\* Schema validation of booking.save(): a Number path takes no NaN and no
\* value that does not cast to a number; null casts to null.
validates(doc) ==
    /\ ~doc.nan
    /\ doc.forecastedTemp.tkind \in {"num", "null"}

\* The stored document: the Number paths hold numbers
stored(doc) ==
    [bookingId |-> doc.bookingId,
     userId |-> doc.userId,
     roomId |-> doc.roomId,
     locationId |-> doc.locationId,
     bookingDate |-> doc.bookingDate,
     basePrice |-> doc.basePrice,
     weatherAdjustment |-> doc.weatherAdjustment,
     finalPrice |-> doc.finalPrice,
     forecastedTemp |-> doc.forecastedTemp,
     weatherCondition |-> doc.weatherCondition,
     status |-> doc.status,
     updatedAt |-> doc.updatedAt]

\* A save that takes over a cancelled record of the same room and date
\* instead of inserting a new one
insertReactivating(L, doc) ==
    LET old == {b \in L : /\ b.roomId = doc.roomId
                          /\ b.bookingDate = doc.bookingDate
                          /\ b.status = "cancelled"}
    IN  IF old = {} THEN L \cup {stored(doc)}
        ELSE {IF b \in old
                 THEN [b EXCEPT !.status = doc.status, !.userId = doc.userId]
                 ELSE b : b \in L}

\* A save put off until after the dispatch
insertDeferred(L, doc) == L

\* booking.save() of a new document.  The collection has no unique index on
\* (roomId, bookingDate): the insert succeeds whatever the ledger holds.
insert(L, doc) == L \cup {stored(doc)}

\* A cancellation that also voids the price
updateVoiding(L, doc, t) ==
    {IF b.bookingId = doc.bookingId
        THEN [b EXCEPT !.status = doc.status, !.updatedAt = t, !.finalPrice = 0]
        ELSE b : b \in L}

\* booking.save() of a loaded document whose status and updatedAt were
\* modified: an update, by _id, of the modified paths; the pre('save') hook
\* refreshes updatedAt.
update(L, doc, t) ==
    {IF b.bookingId = doc.bookingId
        THEN [b EXCEPT !.status = doc.status, !.updatedAt = t]
        ELSE b : b \in L}

\* A deletion that leaves the cancelled bookings
deleteManyActive(L, userId) == {b \in L : b.userId # userId \/ b.status = "cancelled"}

\* Booking.deleteMany({userId})
deleteMany(L, userId) == {b \in L : b.userId # userId}

\* formatBookingResponse(booking)
formatBookingResponse(b) ==
    [bookingId |-> b.bookingId,
     userId |-> b.userId,
     roomId |-> b.roomId,
     locationId |-> b.locationId,
     bookingDate |-> ToISODate(b.bookingDate),
     basePrice |-> b.basePrice,
     weatherAdjustment |-> b.weatherAdjustment,
     finalPrice |-> b.finalPrice,
     forecastedTemp |-> b.forecastedTemp,
     weatherCondition |-> b.weatherCondition,
     status |-> b.status,
     updatedAt |-> b.updatedAt]

-----------------------------------------------------------------------------
(* Requests, responses and handler-local state *)

\* The query of getUserBookings: status, fromDate and toDate, each absent
\* ({}) or given
NoFilters == [status |-> {}, fromDate |-> {}, toDate |-> {}]

NoReq ==
    [op |-> Nil, userId |-> Nil, roomId |-> Nil, bookingDate |-> 0, id |-> 0,
     month |-> 0, filters |-> NoFilters]

\* lookup is the HTTP status the room lookup got (0: none, or no answer);
\* weatherData is {} for null.
NoLocal ==
    [bookingDateObj |-> 0, lookup |-> 0, room |-> {}, weatherData |-> {},
     pricing |-> {}, booking |-> {}]

\* No response was sent by the last step.  A response carries, besides what
\* the client gets (status, message, booking, fallbackPricingUsed,
\* deletedCount, bookedDates, count, bookings), the handler that sent it, its request and the status its
\* room lookup got.
NoResp ==
    [proc |-> Nil, req |-> NoReq, lookup |-> 0, status |-> 0, message |-> Nil,
     booking |-> {}, fallbackPricingUsed |-> FALSE, deletedCount |-> 0,
     bookedDates |-> {}, count |-> 0, bookings |-> << >>]

Error(status, message) == [NoResp EXCEPT !.status = status, !.message = message]

Idle(p) == pc[p] = "idle"

\* A request is received by the idle handler p.
Receive(p) ==
    /\ Idle(p)
    /\ started < MaxRequests
    /\ started' = started + 1

\* The handler of p sends r, the response to request q, and ends.
Reply(p, q, r) ==
    /\ resp' = [r EXCEPT !.proc = p, !.req = q]
    /\ pc' = [pc EXCEPT ![p] = "idle"]
    /\ req' = [req EXCEPT ![p] = NoReq]
    /\ local' = [local EXCEPT ![p] = NoLocal]

\* The handler of p, serving request q, goes on to wait at `next` with
\* locals l.
Await(p, q, next, l) ==
    /\ resp' = NoResp
    /\ pc' = [pc EXCEPT ![p] = next]
    /\ req' = [req EXCEPT ![p] = q]
    /\ local' = [local EXCEPT ![p] = l]

\* Creations that have not yet drawn their bookingId
Drawing == {q \in Proc : pc[q] \in {"room", "check", "weather"}}

-----------------------------------------------------------------------------
(* The Room Directory: GET /api/rooms/:id of the rooms service *)

\* formatRoom(row): the room with its isActive
formatRoom(roomId) ==
    [roomId |-> roomId,
     locationId |-> RoomTable[roomId].locationId,
     basePrice |-> RoomTable[roomId].basePrice,
     isActive |-> roomId \notin deactivated]

\* getRoomById: the row, whatever its is_active, or 404
getRoomById(roomId) ==
    IF roomId \in DOMAIN RoomTable
    THEN [status |-> 200, data |-> {formatRoom(roomId)}]
    ELSE [status |-> 404, data |-> {}]

\* DELETE /api/rooms/:id of the rooms service: UPDATE conference_rooms SET
\* is_active = false; the row stays
DeleteRoom(roomId) ==
    /\ roomId \in DOMAIN RoomTable
    /\ roomId \notin deactivated
    /\ deactivated' = deactivated \cup {roomId}
    /\ resp' = NoResp
    /\ UNCHANGED <<worker, quote, now, tz, sqsConfigured, ledger, nextId, queue,
                   started, pc, req, local>>

\* The directory cannot be reached: axios.get gets no answer (status 0)
NoAnswer == [status |-> 0, data |-> {}]

\* What axios.get gives getRoomDetails: the directory's answer, or none
RoomReplies(roomId) == {getRoomById(roomId), NoAnswer}

\* getRoomDetails: response.data, or a throw, with one message, on any
\* non-2xx answer or network error
getRoomDetails(reply) ==
    IF reply.status = 200
    THEN [threw |-> FALSE, message |-> Nil, room |-> reply.data]
    ELSE [threw |-> TRUE, message |-> "Room not found or service unavailable",
          room |-> {}]

-----------------------------------------------------------------------------
(* createBooking *)

\* POST /api/bookings: the validation middleware, then the handler up to
\* its first await (the room lookup).
CreateRequest(p, u, roomId, d) ==
    LET r == [op |-> "create", userId |-> u, roomId |-> roomId,
              bookingDate |-> d, id |-> 0, month |-> 0,
              filters |-> NoFilters] IN
    /\ Receive(p)
    /\ IF ~createBookingValidation(roomId, d)
       THEN Reply(p, r, Error(400, "Validation failed"))
       ELSE /\ nextId + Cardinality(Drawing) <= MaxBookings
            /\ Await(p, r, "room",
                     [NoLocal EXCEPT !.bookingDateObj = SetHoursZero(ParseDate(d))])
    /\ UNCHANGED <<deactivated, worker, quote, now, tz, sqsConfigured, ledger, nextId, queue>>

\* The room lookup returns; the handler goes on to the availability query.
RoomLookup(p) ==
    /\ pc[p] = "room"
    /\ \E reply \in RoomReplies(req[p].roomId) :
         LET got == getRoomDetails(reply) IN
         IF got.threw
         THEN Reply(p, req[p],
                    [Error(500, got.message) EXCEPT !.lookup = reply.status])
         ELSE IF got.room = {}
         THEN Reply(p, req[p],
                    [Error(404, "Room not found") EXCEPT !.lookup = reply.status])
         ELSE Await(p, req[p], "check",
                    [local[p] EXCEPT !.room = got.room, !.lookup = reply.status])
    /\ UNCHANGED <<deactivated, worker, quote, now, tz, sqsConfigured, ledger, nextId, queue, started>>

\* The availability query returns; the handler goes on to the weather
\* lookup.
AvailabilityCheck(p) ==
    /\ pc[p] = "check"
    /\ LET existingBooking ==
             findActive(ledger, req[p].roomId, local[p].bookingDateObj) IN
       IF existingBooking # {}
       THEN Reply(p, req[p], Error(409, "Room is already booked for this date"))
       ELSE Await(p, req[p], "weather", local[p])
    /\ UNCHANGED <<deactivated, worker, quote, now, tz, sqsConfigured, ledger, nextId, queue, started>>

\* new Booking({...}) of createBooking
newBooking(id, r, l, room, pricing) ==
    [bookingId |-> id,
     userId |-> r.userId,
     roomId |-> r.roomId,
     locationId |-> room.locationId,
     bookingDate |-> l.bookingDateObj,
     basePrice |-> room.basePrice,
     weatherAdjustment |-> pricing.weatherAdjustment,
     finalPrice |-> pricing.finalPrice,
     nan |-> pricing.nan,
     forecastedTemp |-> pricing.forecastedTemp,
     weatherCondition |-> pricing.weatherCondition,
     status |-> "confirmed",
     updatedAt |-> now]

\* The weather lookup returns; the handler prices the booking, builds the
\* document with a fresh id and starts to save it.
WeatherLookup(p, reply) ==
    /\ pc[p] = "weather"
    /\ LET room == The(local[p].room)
           weatherData == getWeatherForecast(reply)
           pricing == calculateDynamicPrice(room.basePrice, weatherData)
           booking == newBooking(nextId, req[p], local[p], room, pricing)
       IN  Await(p, req[p], "save",
                 [local[p] EXCEPT !.weatherData = weatherData,
                                  !.pricing = {pricing},
                                  !.booking = {booking}])
    /\ nextId' = nextId + 1
    /\ UNCHANGED <<deactivated, worker, quote, now, tz, sqsConfigured, ledger, queue, started>>

\* booking.save() of the new document
Save(p) ==
    /\ pc[p] = "save"
    /\ LET booking == The(local[p].booking) IN
       IF ~validates(booking)
       THEN /\ Reply(p, req[p], Error(500, "Booking validation failed"))
            /\ UNCHANGED ledger
       ELSE LET saved == [booking EXCEPT !.updatedAt = now] IN
            /\ ledger' = insert(ledger, saved)
            /\ Await(p, req[p], "notify", [local[p] EXCEPT !.booking = {saved}])
    /\ UNCHANGED <<deactivated, worker, quote, now, tz, sqsConfigured, nextId, queue, started>>

-----------------------------------------------------------------------------
(* Notification dispatch *)

EventType(op) == IF op = "create" THEN "BOOKING_CREATED" ELSE "BOOKING_CANCELLED"

\* The message sendBookingNotification builds (userId stands for userEmail
\* and userName, roomId for roomName)
Message(booking, eventType) ==
    [bookingId |-> booking.bookingId,
     userId |-> booking.userId,
     roomId |-> booking.roomId,
     date |-> ToISODate(booking.bookingDate),
     eventType |-> eventType]

\* A dispatch without the try/catch around sqs.sendMessage
sendBookingNotificationNoCatch(Q, booking, eventType, accepted) ==
    IF ~sqsConfigured THEN [queue |-> Q, threw |-> FALSE]
    ELSE IF accepted
    THEN [queue |-> Q (+) SetToBag({Message(booking, eventType)}), threw |-> FALSE]
    ELSE [queue |-> Q, threw |-> TRUE]

\* sendBookingNotification: nothing when SQS_QUEUE_URL is unset; otherwise
\* sqs.sendMessage, whose failure is caught and logged.  accepted: SQS took
\* the message.  Gives the queue afterwards and whether the call threw.
sendBookingNotification(Q, booking, eventType, accepted) ==
    IF ~sqsConfigured THEN [queue |-> Q, threw |-> FALSE]
    ELSE IF accepted
    THEN [queue |-> Q (+) SetToBag({Message(booking, eventType)}), threw |-> FALSE]
    ELSE [queue |-> Q, threw |-> FALSE]

\* The message of the handler's catch block for an error thrown by the
\* dispatch: error.message in createBooking, a fixed text in cancelBooking
Failed(op) ==
    IF op = "create" THEN "SQS error" ELSE "Failed to cancel booking"

\* The awaited sendBookingNotification of createBooking and cancelBooking
Notify(p) ==
    /\ pc[p] = "notify"
    /\ \E accepted \in BOOLEAN :
         LET sent == sendBookingNotification(queue, The(local[p].booking),
                                             EventType(req[p].op), accepted) IN
         /\ queue' = sent.queue
         /\ IF sent.threw
            THEN Reply(p, req[p], Error(500, Failed(req[p].op)))
            ELSE Await(p, req[p], "respond", local[p])
    /\ UNCHANGED <<deactivated, worker, quote, now, tz, sqsConfigured, ledger, nextId, started>>

\* res.status(201).json(...) of createBooking, res.json(...) of cancelBooking
Respond(p) ==
    /\ pc[p] = "respond"
    /\ LET booking == The(local[p].booking) IN
       IF req[p].op = "create"
       THEN Reply(p, req[p],
                  [NoResp EXCEPT
                     !.status = 201,
                     !.message = "Booking created successfully",
                     !.booking = {formatBookingResponse(booking)},
                     !.fallbackPricingUsed = The(local[p].pricing).fallbackUsed])
       ELSE Reply(p, req[p],
                  [NoResp EXCEPT
                     !.status = 200,
                     !.message = "Booking cancelled successfully",
                     !.booking = {formatBookingResponse(booking)}])
    /\ UNCHANGED <<deactivated, worker, quote, now, tz, sqsConfigured, ledger, nextId, queue, started>>

-----------------------------------------------------------------------------
(* getBookingById and cancelBooking *)

\* An access check that reads the role of the owner, not of the caller
AccessDeniedByOwnerRole(booking, userId) ==
    booking.userId # userId /\ UserRole[booking.userId] # "admin"

\* booking.userId !== userId && req.user.role !== 'admin'
AccessDenied(booking, userId) ==
    booking.userId # userId /\ UserRole[userId] # "admin"

\* A cancelBooking that does not look at the status
alreadyCancelledNever(booking) == FALSE

\* booking.status === 'cancelled'
alreadyCancelled(booking) == booking.status = "cancelled"

\* A past check that also refuses the bookings of today
isPastBookingOrToday(booking) == booking.bookingDate <= Today

\* booking.bookingDate < today
isPastBooking(booking) == booking.bookingDate < Today

\* GET /api/bookings/:id up to its await
GetRequest(p, u, id) ==
    /\ Receive(p)
    /\ Await(p, [NoReq EXCEPT !.op = "get", !.userId = u, !.id = id], "gfind", NoLocal)
    /\ UNCHANGED <<deactivated, worker, quote, now, tz, sqsConfigured, ledger, nextId, queue>>

\* getBookingById after Booking.findOne
GetFind(p) ==
    /\ pc[p] = "gfind"
    /\ LET found == findById(ledger, req[p].id) IN
       IF found = {}
       THEN Reply(p, req[p], Error(404, "Booking not found"))
       ELSE IF AccessDenied(The(found), req[p].userId)
       THEN Reply(p, req[p], Error(403, "Access denied"))
       ELSE Reply(p, req[p],
                  [NoResp EXCEPT !.status = 200, !.message = "OK",
                                 !.booking = {formatBookingResponse(The(found))}])
    /\ UNCHANGED <<deactivated, worker, quote, now, tz, sqsConfigured, ledger, nextId, queue, started>>

\* PUT /api/bookings/:id/cancel up to its await
CancelRequest(p, u, id) ==
    /\ Receive(p)
    /\ Await(p, [NoReq EXCEPT !.op = "cancel", !.userId = u, !.id = id], "cfind", NoLocal)
    /\ UNCHANGED <<deactivated, worker, quote, now, tz, sqsConfigured, ledger, nextId, queue>>

\* cancelBooking after Booking.findOne, up to booking.save()
CancelFind(p) ==
    /\ pc[p] = "cfind"
    /\ LET found == findById(ledger, req[p].id) IN
       IF found = {}
       THEN Reply(p, req[p], Error(404, "Booking not found"))
       ELSE LET booking == The(found) IN
            IF AccessDenied(booking, req[p].userId)
            THEN Reply(p, req[p], Error(403, "Access denied"))
            ELSE IF alreadyCancelled(booking)
            THEN Reply(p, req[p], Error(400, "Booking is already cancelled"))
            ELSE IF isPastBooking(booking)
            THEN Reply(p, req[p], Error(400, "Cannot cancel past bookings"))
            ELSE Await(p, req[p], "csave",
                       [local[p] EXCEPT !.booking =
                          {[booking EXCEPT !.status = "cancelled", !.updatedAt = now]}])
    /\ UNCHANGED <<deactivated, worker, quote, now, tz, sqsConfigured, ledger, nextId, queue, started>>

\* booking.save() of cancelBooking: it throws when the document is gone
CancelSave(p) ==
    /\ pc[p] = "csave"
    /\ LET booking == The(local[p].booking) IN
       IF findById(ledger, booking.bookingId) = {}
       THEN /\ Reply(p, req[p], Error(500, "Failed to cancel booking"))
            /\ UNCHANGED ledger
       ELSE /\ ledger' = update(ledger, booking, now)
            /\ Await(p, req[p], "notify",
                     [local[p] EXCEPT !.booking = {[booking EXCEPT !.updatedAt = now]}])
    /\ UNCHANGED <<deactivated, worker, quote, now, tz, sqsConfigured, nextId, queue, started>>

-----------------------------------------------------------------------------
(* deleteUserBookings *)

DeleteRequest(p, u) ==
    /\ Receive(p)
    /\ Await(p, [NoReq EXCEPT !.op = "delete", !.userId = u], "ddel", NoLocal)
    /\ UNCHANGED <<deactivated, worker, quote, now, tz, sqsConfigured, ledger, nextId, queue>>

\* deleteUserBookings after Booking.deleteMany
DeleteUserBookings(p) ==
    /\ pc[p] = "ddel"
    /\ ledger' = deleteMany(ledger, req[p].userId)
    /\ Reply(p, req[p],
             [NoResp EXCEPT
                !.status = 200,
                !.message = "User bookings deleted successfully",
                !.deletedCount = Cardinality(ledger) - Cardinality(ledger')])
    /\ UNCHANGED <<deactivated, worker, quote, now, tz, sqsConfigured, nextId, queue, started>>

-----------------------------------------------------------------------------
(* getUserBookings *)

\* Booking.find(query): query = {userId}, with status when given, and
\* bookingDate bounded by new Date(fromDate) and new Date(toDate) when given
findByQuery(L, userId, filters) ==
    {b \in L : /\ b.userId = userId
               /\ filters.status # {} => b.status \in filters.status
               /\ \A d \in filters.fromDate : b.bookingDate >= ParseDate(d)
               /\ \A d \in filters.toDate : b.bookingDate <= ParseDate(d)}

\* .sort({bookingDate: -1}): the latest date first; bookings of one date
\* in the order of their insertion
RECURSIVE sortDesc(_)
sortDesc(S) ==
    IF S = {} THEN << >>
    ELSE LET b == CHOOSE x \in S :
                    \A y \in S : \/ x.bookingDate > y.bookingDate
                                 \/ /\ x.bookingDate = y.bookingDate
                                    /\ x.bookingId <= y.bookingId
         IN  <<b>> \o sortDesc(S \ {b})

\* .limit(n)
limit(s, n) == SubSeq(s, 1, IF Len(s) < n THEN Len(s) ELSE n)

\* Booking.find(query).sort({bookingDate: -1}).limit(50)
getUserBookings(L, userId, filters) ==
    limit(sortDesc(findByQuery(L, userId, filters)), LIMIT)

\* GET /api/bookings up to its await
ListRequest(p, u, filters) ==
    /\ Receive(p)
    /\ Await(p, [NoReq EXCEPT !.op = "list", !.userId = u, !.filters = filters],
             "lfind", NoLocal)
    /\ UNCHANGED <<deactivated, worker, quote, now, tz, sqsConfigured, ledger, nextId, queue>>

\* getUserBookings after Booking.find
ListFind(p) ==
    /\ pc[p] = "lfind"
    /\ LET bookings == getUserBookings(ledger, req[p].userId, req[p].filters) IN
       Reply(p, req[p],
             [NoResp EXCEPT
                !.status = 200,
                !.count = Len(bookings),
                !.bookings = [i \in 1 .. Len(bookings) |->
                                formatBookingResponse(bookings[i])]])
    /\ UNCHANGED <<deactivated, worker, quote, now, tz, sqsConfigured, ledger, nextId, queue, started>>

-----------------------------------------------------------------------------
(* checkAvailability *)

\* Booking.find({roomId, bookingDate: {$gte: startDate, $lte: endDate},
\* status: {$ne: 'cancelled'}}) and the bookedDates made of the result, as
\* a set
checkAvailability(L, roomId, month) ==
    LET startDate == LocalDate(month, 1)
        endDate == LocalDate(month + 1, 0)
        bookings == {b \in L : /\ b.roomId = roomId
                               /\ b.bookingDate >= startDate
                               /\ b.bookingDate <= endDate
                               /\ b.status # "cancelled"}
    IN  {ToISODate(b.bookingDate) : b \in bookings}

\* GET /api/bookings/room/:roomId/availability up to its await
AvailabilityRequest(p, roomId, month) ==
    /\ Receive(p)
    /\ Await(p, [NoReq EXCEPT !.op = "availability", !.roomId = roomId,
                              !.month = month], "afind", NoLocal)
    /\ UNCHANGED <<deactivated, worker, quote, now, tz, sqsConfigured, ledger, nextId, queue>>

\* checkAvailability after Booking.find
AvailabilityFind(p) ==
    /\ pc[p] = "afind"
    /\ Reply(p, req[p],
             [NoResp EXCEPT
                !.status = 200,
                !.bookedDates = checkAvailability(ledger, req[p].roomId, req[p].month)])
    /\ UNCHANGED <<deactivated, worker, quote, now, tz, sqsConfigured, ledger, nextId, queue, started>>

-----------------------------------------------------------------------------
(* The clock *)

Tick ==
    /\ now < 48 + MaxTicks * 24
    /\ now' = now + 24
    /\ resp' = NoResp
    /\ UNCHANGED <<deactivated, worker, quote, tz, sqsConfigured, ledger, nextId, queue, started, pc, req, local>>

-----------------------------------------------------------------------------

NoQuote == [basePrice |-> 0, weatherData |-> {}, pricing |-> {}]

-----------------------------------------------------------------------------
(* The email worker: queue/processor.js and index.js *)

\* JavaScript's undefined
Undefined == "undefined"

\* The property f of the object m
Field(m, f) == IF f \in DOMAIN m THEN m[f] ELSE Undefined

\* Message bodies other producers put in the queue (sendToQueue): a text
\* that is no JSON; the JSON text null; a confirmation and a cancellation
\* with the booking as data; a confirmation whose data is {}; a type that
\* has no template
WorkerBodies ==
    {[raw |-> "text"],
     [raw |-> "null"],
     [type |-> "bookingConfirmation", recipient |-> "u1", data |-> "booking"],
     [type |-> "bookingCancellation", recipient |-> "u1", data |-> "booking"],
     [type |-> "bookingConfirmation", recipient |-> "u1", data |-> "empty"],
     [type |-> "welcome", recipient |-> "u1", data |-> "booking"]}

\* The message of another producer in the runs with the booking service: a
\* well-formed confirmation
NotifyBodies ==
    {[type |-> "bookingConfirmation", recipient |-> "u1", data |-> "booking"]}

\* JSON.parse(message.Body): it throws, or gives null ({}) or an object
JSONparse(m) ==
    IF "raw" \in DOMAIN m
    THEN [threw |-> m.raw # "null", body |-> {}]
    ELSE [threw |-> FALSE, body |-> {m}]

emailTemplates == {"bookingConfirmation", "bookingCancellation"}

\* template(data) reads data.roomName, and data.finalPrice.toFixed(2) in
\* the confirmation: a TypeError without data, or without a price
templateThrows(type, data) ==
    \/ data = Undefined
    \/ type = "bookingConfirmation" /\ data = "empty"

\* sendEmail(to, type, data): it throws for an unknown template, when the
\* template throws, and when transporter.sendMail fails
sendEmail(to, type, data, delivered) ==
    [threw |-> \/ type \notin emailTemplates
               \/ templateThrows(type, data)
               \/ ~delivered]

\* handleMessage(message): destructuring null throws; a throw of sendEmail
\* is caught and reported as {success: false}
handleMessage(body, delivered) ==
    IF body = {} THEN [threw |-> TRUE, success |-> FALSE]
    ELSE LET message == The(body)
             sent == sendEmail(Field(message, "recipient"), Field(message, "type"),
                               Field(message, "data"), delivered)
         IN  [threw |-> FALSE, success |-> ~sent.threw]

\* A polling loop that deletes whatever the handler returned
processedAlways(result) == TRUE

\* if (result.success) of processEmailQueue
processed(result) == result.success

\* What the worker did in its last step: the message, how it went
\* (unparseable, threw, failure, success), whether it was deleted from the
\* queue; for the Lambda handler the status it returned and the messages
\* of the batch whose email failed
NoReport ==
    [message |-> {}, outcome |-> Nil, deleted |-> FALSE, returned |-> 0,
     failed |-> {}]

\* The worker in its mode (WORKER_MODE: local, sqs or lambda), before it
\* receives anything
Worker(mode) ==
    [mode |-> mode, pc |-> "poll", records |-> << >>, batch |-> << >>,
     failed |-> {}, report |-> NoReport]

Count(s, m) == Cardinality({i \in DOMAIN s : s[i] = m})

SeqToBag(s) == [m \in {s[i] : i \in DOMAIN s} |-> Count(s, m)]

\* The batches a receive may return: at most MAX_MESSAGES messages of the
\* queue, in any order
Batches(Q) ==
    LET most == IF BagCardinality(Q) < MAX_MESSAGES THEN BagCardinality(Q)
                                                    ELSE MAX_MESSAGES
    IN  {s \in UNION {[1 .. n -> BagToSet(Q)] : n \in 1 .. most} :
            \A m \in BagToSet(Q) : Count(s, m) <= CopiesIn(m, Q)}

\* sendToQueue(messageBody) of another producer
SendToQueue(body) ==
    /\ BagCardinality(queue) < MaxQueue
    /\ queue' = queue (+) SetToBag({body})
    /\ UNCHANGED <<deactivated, worker, quote, now, tz, sqsConfigured, ledger, nextId, started, pc, req,
                   local, resp>>

\* The loop goes on to the next message of the batch, or polls again.
Advance(r) ==
    [worker EXCEPT !.batch = Tail(worker.batch),
                   !.pc = IF Tail(worker.batch) = << >> THEN "poll" ELSE "handle",
                   !.report = r]

\* const messages = await receiveMessages(), with messages
ReceiveMessages ==
    /\ worker.mode = "sqs"
    /\ worker.pc = "poll"
    /\ \E s \in Batches(queue) :
          worker' = [worker EXCEPT !.pc = "handle", !.batch = s, !.report = NoReport]
    /\ UNCHANGED <<deactivated, quote, now, tz, sqsConfigured, ledger, nextId, queue, started, pc,
                   req, local, resp>>

\* The body of the for loop up to deleteMessage: JSON.parse, the awaited
\* messageHandler, and the catch of the loop
ProcessMessage ==
    /\ worker.mode = "sqs"
    /\ worker.pc = "handle"
    /\ \E delivered \in BOOLEAN :
          LET m == Head(worker.batch)
              parsed == JSONparse(m)
              result == IF parsed.threw THEN [threw |-> TRUE, success |-> FALSE]
                        ELSE handleMessage(parsed.body, delivered)
              outcome == IF parsed.threw THEN "unparseable"
                         ELSE IF result.threw THEN "threw"
                         ELSE IF result.success THEN "success" ELSE "failure"
              r == [NoReport EXCEPT !.message = {m}, !.outcome = outcome]
          IN  IF ~result.threw /\ processed(result)
              THEN worker' = [worker EXCEPT !.pc = "delete", !.report = r]
              ELSE worker' = Advance(r)
    /\ UNCHANGED <<deactivated, quote, now, tz, sqsConfigured, ledger, nextId, queue, started, pc,
                   req, local, resp>>

\* await deleteMessage(message.ReceiptHandle): an error of the delete is
\* logged, and the message stays
DeleteMessage ==
    /\ worker.mode = "sqs"
    /\ worker.pc = "delete"
    /\ \E deleted \in BOOLEAN :
          LET m == Head(worker.batch) IN
          /\ queue' = IF deleted THEN queue (-) SetToBag({m}) ELSE queue
          /\ worker' = Advance([worker.report EXCEPT !.deleted = deleted])
    /\ UNCHANGED <<deactivated, quote, now, tz, sqsConfigured, ledger, nextId, started, pc, req,
                   local, resp>>

\* module.exports.handler(event) is invoked with a batch of the queue.
LambdaInvoke ==
    /\ worker.mode = "lambda"
    /\ worker.pc = "poll"
    /\ \E s \in Batches(queue) :
          worker' = [worker EXCEPT !.pc = "record", !.records = s, !.batch = s,
                                   !.failed = {}, !.report = NoReport]
    /\ UNCHANGED <<deactivated, quote, now, tz, sqsConfigured, ledger, nextId, queue, started, pc,
                   req, local, resp>>

\* One round of the handler's loop: JSON.parse(record.body) and the awaited
\* handleMessage, whose result is dropped.  A throw ends the invocation
\* with an error, and the batch stays in the queue.
LambdaRecord ==
    /\ worker.mode = "lambda"
    /\ worker.pc = "record"
    /\ \E delivered \in BOOLEAN :
          LET m == Head(worker.batch)
              parsed == JSONparse(m)
              result == IF parsed.threw THEN [threw |-> TRUE, success |-> FALSE]
                        ELSE handleMessage(parsed.body, delivered)
          IN  IF result.threw
              THEN worker' = [Worker("lambda") EXCEPT
                                !.report = [NoReport EXCEPT
                                              !.message = {m},
                                              !.outcome = IF parsed.threw
                                                          THEN "unparseable"
                                                          ELSE "threw",
                                              !.returned = 500]]
              ELSE worker' = [worker EXCEPT
                                !.batch = Tail(worker.batch),
                                !.failed = IF result.success THEN worker.failed
                                           ELSE worker.failed \cup {m},
                                !.pc = IF Tail(worker.batch) = << >> THEN "return"
                                                                    ELSE "record",
                                !.report = NoReport]
    /\ UNCHANGED <<deactivated, quote, now, tz, sqsConfigured, ledger, nextId, queue, started, pc,
                   req, local, resp>>

\* return { statusCode: 200, body: 'Messages processed' }: the invocation
\* succeeded, and the SQS event source deletes its batch from the queue.
LambdaReturn ==
    /\ worker.mode = "lambda"
    /\ worker.pc = "return"
    /\ queue' = queue (-) SeqToBag(worker.records)
    /\ worker' = [Worker("lambda") EXCEPT
                     !.report = [NoReport EXCEPT
                                   !.message = {worker.records[i] :
                                                   i \in DOMAIN worker.records},
                                   !.outcome = "returned",
                                   !.deleted = TRUE,
                                   !.returned = 200,
                                   !.failed = worker.failed]]
    /\ UNCHANGED <<deactivated, quote, now, tz, sqsConfigured, ledger, nextId, started, pc, req,
                   local, resp>>

\* calculateDynamicPrice called on its own, as the unit tests call it
Quote(basePrice, weatherData) ==
    /\ quote' = [basePrice |-> basePrice, weatherData |-> weatherData,
                 pricing |-> {calculateDynamicPrice(basePrice, weatherData)}]
    /\ UNCHANGED <<deactivated, worker, now, tz, sqsConfigured, ledger, nextId, queue, started,
                   pc, req, local, resp>>

\* The service starts on day 2, 00:00 UTC, on a server whose timezone
\* offset is in Z.
InitIn(Z) ==
    /\ now = 48
    /\ tz \in Z
    /\ sqsConfigured \in BOOLEAN
    /\ ledger = {}
    /\ nextId = 1
    /\ queue = EmptyBag
    /\ started = 0
    /\ pc = [p \in Proc |-> "idle"]
    /\ req = [p \in Proc |-> NoReq]
    /\ local = [p \in Proc |-> NoLocal]
    /\ resp = NoResp
    /\ quote = NoQuote
    /\ worker = Worker("local")
    /\ deactivated = {}

\* One step of the service with handlers P serving requests of users U for
\* rooms R and dates D, the weather provider answering from W.
Step(P, U, R, D, W) ==
    \/ \E p \in P, u \in U, roomId \in R, d \in D : CreateRequest(p, u, roomId, d)
    \/ \E p \in P : RoomLookup(p)
    \/ \E p \in P : AvailabilityCheck(p)
    \/ \E p \in P, reply \in W : WeatherLookup(p, reply)
    \/ \E p \in P : Save(p)
    \/ \E p \in P : Notify(p)
    \/ \E p \in P : Respond(p)
    \/ \E p \in P, u \in U, id \in 1 .. MaxBookings : GetRequest(p, u, id)
    \/ \E p \in P : GetFind(p)
    \/ \E p \in P, u \in U, id \in 1 .. MaxBookings : CancelRequest(p, u, id)
    \/ \E p \in P : CancelFind(p)
    \/ \E p \in P : CancelSave(p)
    \/ \E p \in P, u \in U : DeleteRequest(p, u)
    \/ \E p \in P : DeleteUserBookings(p)
    \/ Tick

\* Concurrent requests: two handlers interleave at their awaits.
Next == Step(Proc, Users, ConcRoomIds, ConcDates, ConcWeather)

\* Date arithmetic does not depend on the interleaving: the concurrent runs
\* are those of a server on UTC.
InitUTC == InitIn({0})

Spec == InitUTC /\ [][Next]_vars

\* Sequential runs: one request at a time, over the full input sets.
NextSeq == Step({"h1"}, Users, RoomIds, ReqDates, WeatherReplies)

Init == InitIn(TZOffsets)

SpecSeq == Init /\ [][NextSeq]_vars

\* Sequential runs of one user on a server on UTC, with temperatures whose
\* adjustment is half a cent
NextTie == Step({"h1"}, {"u1"}, ConcRoomIds, ConcDates, TieWeather)

SpecTie == InitUTC /\ [][NextTie]_vars

\* Sequential runs with availability queries, around the turn of a month
NextAvail ==
    \/ Step({"h1"}, {"u1"}, ConcRoomIds, AvailDates, ConcWeather)
    \/ \E roomId \in ConcRoomIds, month \in Months :
           AvailabilityRequest("h1", roomId, month)
    \/ AvailabilityFind("h1")

SpecAvail == Init /\ [][NextAvail]_vars

\* The i-th booking of a ledger that was filled before: the rooms in
\* turn, a new day every two bookings, every sixth booking the admin's,
\* every fourth cancelled, priced without weather data
Earlier(i) ==
    LET roomId == IF i % 2 = 1 THEN "r1" ELSE "r2"
        room == RoomTable[roomId]
        doc == newBooking(i,
                          [userId |-> IF i % 6 = 0 THEN "u2" ELSE "u1",
                           roomId |-> roomId],
                          [bookingDateObj |-> SetHoursZero(ParseDate((i + 1) \div 2))],
                          room,
                          calculateDynamicPrice(room.basePrice, {}))
    IN  stored([doc EXCEPT !.status = IF i % 4 = 0 THEN "cancelled" ELSE "confirmed"])

\* The service starts with a ledger of n earlier bookings.
InitList ==
    /\ now = 48
    /\ tz \in TZOffsets
    /\ sqsConfigured \in BOOLEAN
    /\ \E n \in LedgerSizes :
          /\ ledger = {Earlier(i) : i \in 1 .. n}
          /\ nextId = n + 1
    /\ queue = EmptyBag
    /\ started = 0
    /\ pc = [p \in Proc |-> "idle"]
    /\ req = [p \in Proc |-> NoReq]
    /\ local = [p \in Proc |-> NoLocal]
    /\ resp = NoResp
    /\ quote = NoQuote
    /\ worker = Worker("local")
    /\ deactivated = {}

\* Listings of a ledger filled before
NextList ==
    \/ \E u \in Users, status \in StatusFilters, fromDate, toDate \in DateFilters :
           ListRequest("h1", u, [status |-> status, fromDate |-> fromDate,
                                 toDate |-> toDate])
    \/ ListFind("h1")

SpecList == InitList /\ [][NextList]_vars

\* The worker starts in a mode of M on an empty queue.
InitWorkerIn(M) ==
    /\ now = 48
    /\ tz = 0
    /\ sqsConfigured = TRUE
    /\ ledger = {}
    /\ nextId = 1
    /\ queue = EmptyBag
    /\ started = 0
    /\ pc = [p \in Proc |-> "idle"]
    /\ req = [p \in Proc |-> NoReq]
    /\ local = [p \in Proc |-> NoLocal]
    /\ resp = NoResp
    /\ quote = NoQuote
    /\ \E mode \in M : worker = Worker(mode)
    /\ deactivated = {}

\* The worker starts in polling or in Lambda mode.
InitWorker == InitWorkerIn({"sqs", "lambda"})

\* The worker and the producers of well-formed and malformed messages
NextWorker ==
    \/ \E body \in WorkerBodies : SendToQueue(body)
    \/ ReceiveMessages
    \/ ProcessMessage
    \/ DeleteMessage
    \/ LambdaInvoke
    \/ LambdaRecord
    \/ LambdaReturn

SpecWorker == InitWorker /\ [][NextWorker]_vars

\* The booking service, one request at a time, and the polling worker on
\* the queue the service sends to
NextNotify ==
    \/ Step({"h1"}, {"u1"}, {"r1"}, ConcDates, ConcWeather)
    \/ \E body \in NotifyBodies : SendToQueue(body)
    \/ ReceiveMessages
    \/ ProcessMessage
    \/ DeleteMessage

InitNotify == InitWorkerIn({"sqs"})

SpecNotify == InitNotify /\ [][NextNotify]_vars

\* The booking service, one request at a time, and the deletion of rooms
\* in the rooms service
NextRooms ==
    \/ Step({"h1"}, {"u1"}, ConcRoomIds, ConcDates, ConcWeather)
    \/ \E roomId \in ConcRoomIds : DeleteRoom(roomId)

SpecRooms == InitUTC /\ [][NextRooms]_vars

-----------------------------------------------------------------------------
(* Progress *)

\* A weather lookup without a timeout waits for the provider for ever
weatherNeverTimesOut == FALSE

\* The weather lookup is abandoned, as a failure, when its timeout expires.
weatherTimesOut == WEATHER_TIMEOUT > 0

\* The awaited calls that return whatever the other services do: the
\* MongoDB queries (MongoDB answers every query), the weather lookup
\* because of its timeout, and the dispatch when no queue is configured
\* (sendBookingNotification returns at once).  No timeout bounds the room
\* lookup (axios.get without options) nor sqs.sendMessage.
Returns(p) ==
    /\ WF_vars(AvailabilityCheck(p))
    /\ WF_vars(weatherTimesOut /\ \E reply \in TieWeather : WeatherLookup(p, reply))
    /\ WF_vars(Save(p))
    /\ WF_vars(~sqsConfigured /\ Notify(p))
    /\ WF_vars(Respond(p))
    /\ WF_vars(GetFind(p))
    /\ WF_vars(CancelFind(p))
    /\ WF_vars(CancelSave(p))
    /\ WF_vars(DeleteUserBookings(p))

\* The sequential runs of SpecTie in which every call returns that the
\* code makes sure returns
SpecLive == SpecTie /\ Returns("h1")

\* The runs of SpecLive in which, besides, the queue answers every send
SpecLiveDispatch == SpecLive /\ WF_vars(Notify("h1"))

\* The pricing function on its own
NextPrice ==
    \E basePrice \in BasePrices, weatherData \in WeatherSamples :
        Quote(basePrice, weatherData)

SpecPrice == InitUTC /\ [][NextPrice]_vars

-----------------------------------------------------------------------------
(* Properties of the ledger *)

\* round2 of the specification: a non-negative amount in mils rounded, half
\* up, to whole cents
Round2(x) == ((x + 5) \div 10) * 10

Active(b) == b.status # "cancelled"

CancelledIn(L, id) == \E b \in L : b.bookingId = id /\ b.status = "cancelled"

\* The active bookings of L for a room and a stored booking date
Holders(L, roomId, bookingDate) ==
    {b \in L : b.roomId = roomId /\ b.bookingDate = bookingDate /\ Active(b)}

\* The response is the success response of a createBooking
Created(r) == r.req.op = "create" /\ r.status = 201

\* C1: under any interleaving of createBooking, cancelBooking and
\* deleteUserBookings the ledger holds at most one non-cancelled booking for
\* a room and a date.  The code does not keep it: the availability query and
\* the save are separate awaits and the collection has no unique index, so
\* two creations that both query before either saves both insert.
C1_AtMostOneActivePerSlot ==
    \A b1, b2 \in ledger :
        (/\ Active(b1) /\ Active(b2)
         /\ b1.roomId = b2.roomId
         /\ b1.bookingDate = b2.bookingDate) => b1 = b2

\* C2: of two concurrent createBooking requests for one room and date, on
\* an empty slot, exactly one succeeds with a confirmed booking and the other
\* gets Conflict: never are both handlers about to send the success response
\* for bookings of the same slot.  The code lets both get there.
C2_OneOfTwoConcurrentCreatesSucceeds ==
    \A p, q \in Proc :
        ~(/\ p # q
          /\ pc[p] = "respond" /\ pc[q] = "respond"
          /\ req[p].op = "create" /\ req[q].op = "create"
          /\ req[p].roomId = req[q].roomId
          /\ local[p].bookingDateObj = local[q].bookingDateObj
          /\ The(local[p].booking).status = "confirmed"
          /\ The(local[q].booking).status = "confirmed")

C4_CancelledIsTerminal ==
    [][\A b \in ledger : \A c \in ledger' :
          (b.status = "cancelled" /\ c.bookingId = b.bookingId)
          => c.status = "cancelled"]_vars

\* A cancelled booking stays cancelled while its slot is booked again.
C4_Witness ==
    \E b, c \in ledger :
        /\ b.status = "cancelled"
        /\ c.status = "confirmed"
        /\ c.roomId = b.roomId
        /\ c.bookingDate = b.bookingDate

-----------------------------------------------------------------------------
(* Properties of the handlers *)

\* C5: the first cancelBooking by the owner of a confirmed booking whose
\* date is not past goes through: the record becomes cancelled and the
\* response is the success response.  A second cancelBooking of the booking
\* is refused with InvalidState (400, "Booking is already cancelled"), leaves
\* the ledger as it is and sends nothing: the queue never holds a second
\* BOOKING_CANCELLED message of a booking.
C5_CancelOnce ==
    [][/\ \A p \in Proc :
            /\ (pc[p] = "cfind" /\ pc'[p] # "cfind") =>
                 \A b \in ledger :
                     (b.bookingId = req[p].id /\ b.userId = req[p].userId) =>
                       /\ (b.status = "confirmed" /\ ~(b.bookingDate < Today))
                          => (pc'[p] = "csave" /\ resp' = NoResp)
                       /\ b.status = "cancelled"
                          => /\ resp'.proc = p
                             /\ resp'.status = 400
                             /\ resp'.message = "Booking is already cancelled"
                             /\ ledger' = ledger
                             /\ queue' = queue
            /\ (pc[p] = "csave" /\ pc'[p] # "csave") =>
                 (pc'[p] = "notify" /\ CancelledIn(ledger', req[p].id))
            /\ (pc[p] = "notify" /\ req[p].op = "cancel" /\ pc'[p] # "notify") =>
                 (pc'[p] = "respond" /\ ledger' = ledger)
            /\ (pc[p] = "respond" /\ req[p].op = "cancel" /\ pc'[p] # "respond") =>
                 /\ resp'.proc = p
                 /\ resp'.status = 200
                 /\ CancelledIn(ledger', req[p].id)
                 /\ \A b \in resp'.booking : b.status = "cancelled"
       /\ \A m \in BagToSet(queue') :
            m.eventType = "BOOKING_CANCELLED" => CopiesIn(m, queue') = 1]_vars

\* The owner's second cancelBooking was refused; the first one had sent its
\* notification.
C5_Witness ==
    /\ resp.req.op = "cancel"
    /\ resp.status = 400
    /\ resp.message = "Booking is already cancelled"
    /\ \E b \in ledger :
          /\ b.bookingId = resp.req.id
          /\ b.userId = resp.req.userId
          /\ b.status = "cancelled"
          /\ \E m \in BagToSet(queue) :
                m.bookingId = b.bookingId /\ m.eventType = "BOOKING_CANCELLED"

\* The calendar day of the server's clock, on the server and in UTC
LocalDay == (now + tz) \div 24

UTCDay == now \div 24

\* C6: a createBooking whose date is a day before today (the server's day
\* or the UTC day) is answered 400 "Validation failed" whatever room it
\* names; the handler does not start, so neither the room lookup nor the
\* ledger is reached.
C6_PastDateRejected ==
    [][\A p \in Proc :
          (pc[p] = "idle" /\ started' # started) =>
            LET r == IF resp'.proc = p THEN resp'.req ELSE req'[p] IN
            (/\ r.op = "create"
             /\ r.bookingDate >= 1
             /\ (r.bookingDate < LocalDay \/ r.bookingDate < UTCDay))
            => /\ resp'.proc = p
               /\ resp'.status = 400
               /\ resp'.message = "Validation failed"
               /\ pc'[p] = "idle"
               /\ ledger' = ledger
               /\ nextId' = nextId
               /\ queue' = queue]_vars

\* A createBooking for yesterday, for a room that exists, was refused.
C6_Witness ==
    /\ resp.req.op = "create"
    /\ resp.status = 400
    /\ resp.req.roomId \in DOMAIN RoomTable
    /\ resp.req.bookingDate >= 1
    /\ resp.req.bookingDate < LocalDay

\* C7: a createBooking whose weather lookup failed or timed out (weatherData
\* is null) goes on: the weather step never ends the request, the save
\* stores a confirmed booking priced with the fallback (weatherAdjustment a
\* tenth of basePrice, forecastedTemp and weatherCondition null), and the
\* response is the 201 success response with fallbackPricingUsed.
C7_WeatherFailureFallsBack ==
    [][\A p \in Proc :
          /\ (pc[p] = "weather" /\ pc'[p] # "weather") =>
               (pc'[p] = "save" /\ resp' = NoResp)
          /\ (req[p].op = "create" /\ local[p].weatherData = {}) =>
               /\ (pc[p] = "save" /\ pc'[p] # "save") =>
                    /\ pc'[p] = "notify"
                    /\ \E b \in ledger' \ ledger :
                          /\ b.bookingId = The(local[p].booking).bookingId
                          /\ b.status = "confirmed"
                          /\ b.weatherAdjustment * 10 = b.basePrice
                          /\ b.finalPrice = b.basePrice + b.weatherAdjustment
                          /\ b.forecastedTemp = NullTemp
                          /\ b.weatherCondition = Nil
               /\ (pc[p] = "notify" /\ pc'[p] # "notify") => pc'[p] = "respond"
               /\ (pc[p] = "respond" /\ pc'[p] # "respond") =>
                    /\ resp'.proc = p
                    /\ resp'.status = 201
                    /\ resp'.fallbackPricingUsed
                    /\ \E b \in resp'.booking :
                          b.status = "confirmed" /\ b.forecastedTemp = NullTemp]_vars

\* A creation whose weather lookup failed has stored its booking and is
\* about to answer.
C7_Witness ==
    \E p \in Proc :
        /\ pc[p] = "respond"
        /\ req[p].op = "create"
        /\ local[p].weatherData = {}
        /\ \E b \in ledger :
              /\ b.bookingId = The(local[p].booking).bookingId
              /\ b.status = "confirmed"

\* C8: the notification dispatch never ends the request and never touches
\* the ledger, and the response that follows it is the success response
\* built from the stored booking in its new status: the same whether the
\* queue took the message or not.
C8_NotificationFailureHidden ==
    [][\A p \in Proc :
          /\ (pc[p] = "notify" /\ pc'[p] # "notify") =>
               (pc'[p] = "respond" /\ resp' = NoResp /\ ledger' = ledger)
          /\ (pc[p] = "respond" /\ pc'[p] # "respond") =>
               /\ resp'.proc = p
               /\ resp'.status = IF req[p].op = "create" THEN 201 ELSE 200
               /\ ledger' = ledger
               /\ \E b \in ledger' :
                     /\ b.bookingId = The(local[p].booking).bookingId
                     /\ b.status = IF req[p].op = "create" THEN "confirmed"
                                                          ELSE "cancelled"
                     /\ resp'.booking = {formatBookingResponse(b)}]_vars

\* A success response was sent although the queue, which is configured,
\* did not take the message of the event.
C8_Witness ==
    /\ sqsConfigured
    /\ resp.status \in {200, 201}
    /\ resp.req.op \in {"create", "cancel"}
    /\ \E r \in resp.booking :
          /\ \E b \in ledger : b.bookingId = r.bookingId /\ b.status = r.status
          /\ \A m \in BagToSet(queue) :
                ~(m.bookingId = r.bookingId /\ m.eventType = EventType(resp.req.op))

\* What the caller of createBooking gets when the directory cannot be
\* reached: the catch block's 500 with the message getRoomDetails threw
UnreachableOutcome == <<500, getRoomDetails(NoAnswer).message>>

\* C9: when the Room Directory reports that the room does not exist (404),
\* the outcome of createBooking differs from the one of an unreachable
\* directory.  The code gives both the same status and message.
C9_RoomNotFoundDistinguishable ==
    (resp.req.op = "create" /\ resp.lookup = 404) =>
        <<resp.status, resp.message>> # UnreachableOutcome

\* C10: when getBookingById or cancelBooking finds the booking and the
\* caller is neither its owner nor an admin, the answer is 403 without
\* booking data, and ledger and queue stay as they are; a 200 of either
\* operation shows a booking only to its owner or to an admin.
C10_ForbiddenForOthers ==
    [][/\ \A p \in Proc :
            (pc[p] \in {"gfind", "cfind"} /\ pc'[p] # pc[p]) =>
              \A b \in ledger :
                  (/\ b.bookingId = req[p].id
                   /\ b.userId # req[p].userId
                   /\ UserRole[req[p].userId] # "admin")
                  => /\ resp'.proc = p
                     /\ resp'.status = 403
                     /\ resp'.booking = {}
                     /\ ledger' = ledger
                     /\ queue' = queue
       /\ (resp'.req.op \in {"get", "cancel"} /\ resp'.status = 200) =>
            \A b \in resp'.booking :
                b.userId = resp'.req.userId \/ UserRole[resp'.req.userId] = "admin"]_vars

\* A user who is no admin was refused the cancellation of a booking, already
\* cancelled, of somebody else.
C10_Witness ==
    /\ resp.req.op = "cancel"
    /\ resp.status = 403
    /\ \E b \in ledger :
          /\ b.bookingId = resp.req.id
          /\ b.userId # resp.req.userId
          /\ b.status = "cancelled"

\* The calendar day, on the server's clock, of an instant
LocalDayOf(t) == (t + tz) \div 24

\* The caller of request r owns booking b or is an admin.
Authorized(b, r) == b.userId = r.userId \/ UserRole[r.userId] = "admin"

\* C11: in a sequential run, cancelBooking by an authorized caller on a
\* confirmed booking goes through (the record becomes cancelled, the answer
\* is 200) when the booking's day is today or later on the server's clock,
\* and is refused with InvalidState (400, "Cannot cancel past bookings"),
\* ledger and queue left as they are, when the booking's day is before
\* today.  Today is the day at the moment the handler compares the dates.
C11_CancelUnlessPast ==
    [][\A p \in Proc :
          /\ (pc[p] = "cfind" /\ pc'[p] # "cfind") =>
               \A b \in ledger :
                   (/\ b.bookingId = req[p].id
                    /\ Authorized(b, req[p])
                    /\ b.status = "confirmed") =>
                     IF LocalDayOf(b.bookingDate) >= LocalDay
                     THEN pc'[p] = "csave" /\ resp' = NoResp
                     ELSE /\ resp'.proc = p
                          /\ resp'.status = 400
                          /\ resp'.message = "Cannot cancel past bookings"
                          /\ pc'[p] = "idle"
                          /\ ledger' = ledger
                          /\ queue' = queue
          /\ (pc[p] = "csave" /\ pc'[p] # "csave") =>
               \E b \in ledger' :
                   b.bookingId = req[p].id /\ b.status = "cancelled"
          /\ (pc[p] = "respond" /\ req[p].op = "cancel" /\ pc'[p] # "respond") =>
               (resp'.status = 200 /\ resp'.message = "Booking cancelled successfully")]_vars

\* An authorized cancelBooking of a confirmed booking of yesterday was
\* refused, and the booking is still confirmed.
C11_Witness ==
    /\ resp.req.op = "cancel"
    /\ resp.status = 400
    /\ resp.message = "Cannot cancel past bookings"
    /\ \E b \in ledger :
          /\ b.bookingId = resp.req.id
          /\ Authorized(b, resp.req)
          /\ b.status = "confirmed"
          /\ LocalDayOf(b.bookingDate) < LocalDay

-----------------------------------------------------------------------------
(* Properties of the pricing *)

\* |temperature - 21| x 0.5, in mils, of a temperature in hundredths of a
\* degree
SpecAdjustment(t) == (IF t < 2100 THEN 2100 - t ELSE t - 2100) * 5

\* C12: for every basePrice and every numeric temperature,
\* calculateDynamicPrice gives weatherAdjustment = round2(|t - 21| x 0.5),
\* finalPrice = round2(basePrice + weatherAdjustment), forecastedTemp = t
\* and fallbackUsed = false.  The code rounds the sum of the unrounded
\* terms: when the adjustment ends in half a cent, the two roundings of
\* binary doubles can go different ways and finalPrice is a cent off.
C12_PriceFormula ==
    \A q \in quote.pricing : \A w \in quote.weatherData :
        w.tkind = "num" =>
            /\ q.weatherAdjustment = Round2(SpecAdjustment(w.t))
            /\ q.finalPrice = Round2(quote.basePrice + Round2(SpecAdjustment(w.t)))
            /\ q.forecastedTemp = w
            /\ ~q.fallbackUsed

\* The weather sample is absent or has no temperature.
NoSample(weatherData) ==
    weatherData = {} \/ \E w \in weatherData : w.tkind = "undefined"

\* C13: for every basePrice, when the weather sample is absent or its
\* temperature is undefined, calculateDynamicPrice gives finalPrice =
\* round2(basePrice x 1.10), weatherAdjustment = round2(basePrice x 0.10),
\* forecastedTemp and weatherCondition null and fallbackUsed = true.  The
\* amounts are binary doubles: when a tenth of the base price ends in half
\* a cent, toFixed may round the double down, and the results are a cent
\* below the formula.
C13_FallbackFormula ==
    \A q \in quote.pricing :
        NoSample(quote.weatherData) =>
            /\ q.finalPrice = Round2((quote.basePrice * 11) \div 10)
            /\ q.weatherAdjustment = Round2(quote.basePrice \div 10)
            /\ q.forecastedTemp = NullTemp
            /\ q.weatherCondition = Nil
            /\ q.fallbackUsed

\* C14: every booking of the ledger has finalPrice = basePrice +
\* weatherAdjustment, and no step changes the basePrice, weatherAdjustment
\* or finalPrice of a booking.  The amounts do stay as stored, but they are
\* stored as calculateDynamicPrice gave them: finalPrice rounded from the
\* unrounded sum, which can be a cent off basePrice + weatherAdjustment.
C14_PricingSnapshot ==
    [][/\ \A b \in ledger' : b.finalPrice = b.basePrice + b.weatherAdjustment
       /\ \A b \in ledger : \A c \in ledger' :
            c.bookingId = b.bookingId =>
                /\ c.basePrice = b.basePrice
                /\ c.weatherAdjustment = b.weatherAdjustment
                /\ c.finalPrice = b.finalPrice]_vars

-----------------------------------------------------------------------------
(* Properties of progress *)

\* The success response of handler p was sent.
Succeeded(p) == resp.proc = p /\ resp.status \in {200, 201}

C16_WeatherTimeoutBounded ==
    /\ \A p \in Proc : (pc[p] = "weather") ~> (Succeeded(p) /\ resp.status = 201)
    /\ [](\A p \in Proc :
            (pc[p] \in {"save", "notify", "respond"} /\ req[p].op = "create"
             /\ local[p].weatherData = {})
            => \A q \in local[p].pricing : q.fallbackUsed)

\* A creation whose weather lookup failed or timed out is priced with the
\* fallback and about to be saved.
C16_Witness ==
    \E p \in Proc :
        /\ pc[p] = "save"
        /\ local[p].weatherData = {}
        /\ \E q \in local[p].pricing : q.fallbackUsed

-----------------------------------------------------------------------------
(* Properties of the notifications *)

\* The status an event of this type announces
Announced(eventType) ==
    IF eventType = "BOOKING_CREATED" THEN "confirmed" ELSE "cancelled"

\* The messages a step adds to the queue
Dispatched == {m \in BagToSet(queue') : CopiesIn(m, queue') > CopiesIn(m, queue)}

\* C17: persist-then-notify.  An event is dispatched only by a handler
\* that has already stored the booking in the status the event announces:
\* a handler reaches its dispatch only by the step that writes the booking
\* to the ledger, confirmed for createBooking and cancelled for
\* cancelBooking, and the only message a step adds to the queue is the
\* event of a handler at its dispatch, for the booking it wrote.
C17_PersistThenNotify ==
    [][/\ \A p \in Proc :
             (pc[p] # "notify" /\ pc'[p] = "notify") =>
                 LET b == The(local'[p].booking) IN
                 /\ req'[p].op \in {"create", "cancel"}
                 /\ b.status = Announced(EventType(req'[p].op))
                 /\ stored(b) \in ledger'
                 /\ queue' = queue
       /\ \A m \in Dispatched :
             \E p \in Proc :
                 /\ pc[p] = "notify"
                 /\ m = Message(The(local[p].booking), EventType(req[p].op))
                 /\ The(local[p].booking).status = Announced(m.eventType)]_vars

\* Both kinds of event are in the queue, for a booking the ledger holds
\* as cancelled.
C17_Witness ==
    \E b \in ledger :
        /\ b.status = "cancelled"
        /\ BagIn(Message(b, "BOOKING_CREATED"), queue)
        /\ BagIn(Message(b, "BOOKING_CANCELLED"), queue)

\* C17 as stated: at the moment an event is dispatched, the ledger holds
\* its booking in the status the event announces.  A request served
\* between the save and the dispatch (a deleteUserBookings or a cancel by
\* the same user) breaks it.
C17_DispatchedIsInLedger ==
    [][\A m \in Dispatched :
          \E b \in ledger :
              /\ b.bookingId = m.bookingId
              /\ b.status = Announced(m.eventType)]_vars

-----------------------------------------------------------------------------
(* Frame properties *)

\* Handler p takes the step.
StepOf(p) == pc'[p] # pc[p]

\* b as it was, but for its status and updatedAt
Cancelling(b, c) == c = [b EXCEPT !.status = c.status, !.updatedAt = c.updatedAt]

\* C18: cancelBooking changes nothing but the status and updatedAt of the
\* booking it cancels: in every step of a cancelBooking handler, every
\* other booking stays as it is, no booking appears or disappears, and
\* the booking of the request keeps all its other fields.
C18_CancelFrame ==
    [][\A p \in Proc :
          (StepOf(p) /\ req[p].op = "cancel") =>
              /\ \A b \in ledger : b.bookingId # req[p].id => b \in ledger'
              /\ \A b \in ledger : b.bookingId = req[p].id =>
                     \E c \in ledger' : Cancelling(b, c)
              /\ Cardinality(ledger') = Cardinality(ledger)
              /\ nextId' = nextId]_vars

\* A cancellation has just been written, next to another booking.
C18_Witness ==
    \E p \in Proc :
        /\ pc[p] = "notify"
        /\ req[p].op = "cancel"
        /\ \E b, c \in ledger :
              /\ b.bookingId = req[p].id
              /\ b.status = "cancelled"
              /\ c.bookingId # b.bookingId

\* The bookings of a user
BookingsOf(L, userId) == {b \in L : b.userId = userId}

\* C19: deleteUserBookings(userId) removes every booking of that user,
\* whatever its status, reports their number as deletedCount, and leaves
\* the bookings of every other user as they are.
C19_DeleteFrame ==
    [][\A p \in Proc :
          (StepOf(p) /\ pc[p] = "ddel") =>
              /\ BookingsOf(ledger', req[p].userId) = {}
              /\ \A u \in Users \ {req[p].userId} :
                     BookingsOf(ledger', u) = BookingsOf(ledger, u)
              /\ resp'.status = 200
              /\ resp'.deletedCount = Cardinality(BookingsOf(ledger, req[p].userId))]_vars

\* A deletion removed a booking of its user and left one of another user.
C19_Witness ==
    /\ resp.req.op = "delete"
    /\ resp.deletedCount = 1
    /\ BookingsOf(ledger, resp.req.userId) = {}
    /\ ledger # {}

-----------------------------------------------------------------------------
(* Properties of checkAvailability *)

\* The days of a month
DaysOf(month) == FirstDay(month) .. FirstDay(month + 1) - 1

\* The availability check of a createBooking for this room and day would
\* find a holder now.
WouldConflict(roomId, d) ==
    findActive(ledger, roomId, SetHoursZero(ParseDate(d))) # {}

\* C20: checkAvailability(roomId, month, year) answers exactly the days of
\* that month on which the room has a booking that is not cancelled: a day
\* is listed if and only if a createBooking for that room and day would
\* find the conflict.
C20_AvailabilityMatchesConflicts ==
    (resp.req.op = "availability" /\ resp.status = 200) =>
        resp.bookedDates =
            {d \in DaysOf(resp.req.month) : WouldConflict(resp.req.roomId, d)}

-----------------------------------------------------------------------------
(* Properties of getUserBookings *)

\* The bookings of the ledger a listing is to return, but for the cap: those
\* of the caller, in the status asked for, whose date (as the service
\* reports it) lies between fromDate and toDate
Matches(userId, filters) ==
    {b \in ledger : /\ b.userId = userId
                    /\ filters.status # {} => b.status \in filters.status
                    /\ \A d \in filters.fromDate : ToISODate(b.bookingDate) >= d
                    /\ \A d \in filters.toDate : ToISODate(b.bookingDate) <= d}

Least(m, n) == IF m < n THEN m ELSE n

\* C21: getUserBookings returns only bookings of the caller that pass the
\* status, fromDate and toDate filters, each once, ordered by bookingDate
\* descending, and as many of them as there are up to 50: the latest-dated
\* ones when there are more.
C21_ListForUser ==
    (resp.req.op = "list" /\ resp.status = 200) =>
        LET matches == {formatBookingResponse(b) :
                            b \in Matches(resp.req.userId, resp.req.filters)}
            listed == {resp.bookings[i] : i \in 1 .. Len(resp.bookings)}
        IN  /\ listed \subseteq matches
            /\ resp.count = Len(resp.bookings)
            /\ Cardinality(listed) = resp.count
            /\ resp.count = Least(Cardinality(matches), LIMIT)
            /\ \A i, j \in 1 .. Len(resp.bookings) :
                   i < j => resp.bookings[i].bookingDate >= resp.bookings[j].bookingDate
            /\ \A a \in listed, b \in matches \ listed : a.bookingDate >= b.bookingDate

-----------------------------------------------------------------------------
(* Properties of the stored prices *)

\* C22: every stored booking has a base price that is not negative, a
\* weather adjustment that is not negative and a final price that is not
\* below the base price, whether it was priced with a temperature or with
\* the fallback.
C22_PricesNotNegative ==
    \A b \in ledger :
        /\ b.basePrice >= 0
        /\ b.weatherAdjustment >= 0
        /\ b.finalPrice >= b.basePrice

\* A booking priced for a temperature below the optimum is stored next to
\* one priced with the fallback.
C22_Witness ==
    \E b, c \in ledger :
        /\ b.forecastedTemp.tkind = "num"
        /\ b.forecastedTemp.t < OPTIMAL_TEMPERATURE
        /\ b.weatherAdjustment > 0
        /\ c.forecastedTemp.tkind = "null"
        /\ c.weatherAdjustment > 0

-----------------------------------------------------------------------------
(* Properties of the gates of createBooking *)

\* The step sends the response that rejects the createBooking of p.
Rejects(p) ==
    /\ resp'.proc = p
    /\ resp'.req.op = "create"
    /\ resp'.status # 201

\* C23: a createBooking that is rejected at a gate before the save (the
\* validation, the room lookup, the availability check) has written
\* nothing to the ledger and dispatched nothing, and one rejected by the
\* availability check has made no weather lookup.  No step of the handler
\* up to the save changes the ledger or the queue; a rejection is sent
\* only from the validation, the room lookup, the availability check or
\* the save itself, never after the write; the weather lookup is reached
\* only by a passing availability check, and 409 is sent only by a failing
\* one.
C23_RejectedBeforePersist ==
    [][\A p \in Proc :
          /\ ((StepOf(p) \/ resp'.proc = p)
               /\ pc[p] \in {"idle", "room", "check", "weather"}
               /\ (pc[p] = "idle" => (pc'[p] = "room" \/ Rejects(p))))
              => (ledger' = ledger /\ queue' = queue)
          /\ Rejects(p) =>
                /\ pc[p] \in {"idle", "room", "check", "save"}
                /\ pc'[p] = "idle"
                /\ ledger' = ledger
                /\ queue' = queue
          /\ (StepOf(p) /\ pc'[p] = "weather") =>
                /\ pc[p] = "check"
                /\ findActive(ledger, req[p].roomId, local[p].bookingDateObj) = {}
          /\ (Rejects(p) /\ resp'.status = 409) =>
                /\ pc[p] = "check"
                /\ local[p].weatherData = {}
                /\ local[p].pricing = {}]_vars

\* A creation has just been rejected by the availability check, the ledger
\* holding the booking that is in its way and nothing else.
C23_Witness ==
    /\ resp.req.op = "create"
    /\ resp.status = 409
    /\ Cardinality(ledger) = 1
    /\ \A b \in ledger : b.roomId = resp.req.roomId /\ b.status = "confirmed"

-----------------------------------------------------------------------------
(* Properties of malformed weather data *)

\* The weather data carry no temperature, null, or something that is no
\* number.
Malformed(weatherData) ==
    \E w \in weatherData : w.tkind \in {"undefined", "null", "nonnum"}

\* C24: a weather response whose temperature is missing, null or not a
\* number is treated as no weather data: the booking about to be saved is
\* priced with the 10% surcharge, carries no forecasted temperature and no
\* weather condition, and the fallback is reported as used.
C24_MalformedWeatherFallsBack ==
    \A p \in Proc :
        (pc[p] = "save" /\ Malformed(local[p].weatherData)) =>
            LET b == The(local[p].booking)
                pricing == The(local[p].pricing)
            IN  /\ pricing.fallbackUsed
                /\ ~b.nan
                /\ b.weatherAdjustment = Round2(b.basePrice \div FALLBACK_SURCHARGE_PERCENT)
                /\ b.finalPrice = b.basePrice + b.weatherAdjustment
                /\ b.forecastedTemp = NullTemp
                /\ b.weatherCondition = Nil

-----------------------------------------------------------------------------
(* Properties of the email worker *)

\* The messages a step takes out of the queue
Removed == {m \in BagToSet(queue) : CopiesIn(m, queue') < CopiesIn(m, queue)}

\* The polling loop takes the step.
Polling == worker.mode = "sqs" /\ worker' # worker /\ worker.pc # "poll"

\* C25: the polling loop deletes a message only after its handler returned
\* success; a message whose handler returned failure or threw, or whose
\* body is no JSON, stays in the queue, and the loop goes on to the next
\* message of the batch.
C25_DeleteOnlyAfterSuccess ==
    [][worker.mode = "sqs" =>
          /\ \A m \in Removed :
                /\ worker.pc = "delete"
                /\ m = Head(worker.batch)
                /\ worker.report.message = {m}
                /\ worker.report.outcome = "success"
                /\ "raw" \notin DOMAIN m
                /\ Field(m, "type") \in emailTemplates
                /\ Removed = {m}
                /\ CopiesIn(m, queue') = CopiesIn(m, queue) - 1
          /\ (Polling /\ worker.pc = "handle") =>
                LET m == Head(worker.batch) IN
                /\ queue' = queue
                /\ worker'.report.message = {m}
                /\ worker'.report.outcome \in {"unparseable", "threw", "failure", "success"}
                /\ "raw" \in DOMAIN m =>
                      worker'.report.outcome \in {"unparseable", "threw"}
                /\ Field(m, "type") \notin emailTemplates =>
                      worker'.report.outcome # "success"
                /\ IF worker'.report.outcome = "success"
                   THEN worker'.pc = "delete" /\ worker'.batch = worker.batch
                   ELSE /\ worker'.batch = Tail(worker.batch)
                        /\ worker'.pc = IF Len(worker.batch) > 1 THEN "handle" ELSE "poll"
          /\ (Polling /\ worker.pc = "delete") =>
                /\ worker'.batch = Tail(worker.batch)
                /\ worker'.pc = IF Len(worker.batch) > 1 THEN "handle" ELSE "poll"]_vars

\* The loop has deleted a message whose email was sent, after it left a
\* message that is no JSON in the queue.
C25_Witness ==
    /\ worker.mode = "sqs"
    /\ worker.report.outcome = "success"
    /\ worker.report.deleted
    /\ \E m \in BagToSet(queue) : "raw" \in DOMAIN m

-----------------------------------------------------------------------------
(* Properties of the reported date *)

\* C26: whatever the server's timezone, the bookingDate the create
\* response reports for the new booking is the calendar date that was
\* requested.
C26_ReportedDateIsRequested ==
    (resp.req.op = "create" /\ resp.status = 201) =>
        \A b \in resp.booking : b.bookingDate = resp.req.bookingDate

-----------------------------------------------------------------------------
(* Properties of concurrent cancellations *)

\* C27: however concurrent cancelBooking requests for one confirmed
\* booking interleave, at most one BOOKING_CANCELLED notification is
\* dispatched for the booking (and one request only is answered with
\* success).
C27_OneCancellationPerBooking ==
    \A m \in BagToSet(queue) :
        m.eventType = "BOOKING_CANCELLED" => CopiesIn(m, queue) <= 1

-----------------------------------------------------------------------------
(* Properties of the notifications at the worker *)

\* The message was built by sendBookingNotification.
FromBookingService(m) == "eventType" \in DOMAIN m

\* C28: the email worker accepts every message the booking service
\* enqueues: handleMessage finds a template and a recipient for it and
\* returns success (so that the polling loop deletes the message).
C28_BookingMessagesAccepted ==
    \A m \in worker.report.message :
        FromBookingService(m) =>
            /\ Field(m, "type") \in emailTemplates
            /\ Field(m, "recipient") # Undefined
            /\ worker.report.outcome = "success"

\* C29: the Lambda handler treats a failed email as the polling loop does:
\* it does not report a batch as processed (status 200, after which the
\* batch is deleted from the queue) when the email of one of its messages
\* failed.
C29_LambdaReportsFailure ==
    worker.report.returned = 200 => worker.report.failed = {}

-----------------------------------------------------------------------------
(* Properties of deleted rooms *)

\* C30: once deleteRoom has deactivated a room, no booking is created for
\* it: a createBooking whose room lookup finds the room deactivated is
\* rejected there.
C30_NoBookingForDeletedRoom ==
    [][\A p \in Proc :
          (StepOf(p) /\ pc[p] = "room" /\ req[p].roomId \in deactivated) =>
              /\ pc'[p] = "idle"
              /\ resp'.proc = p
              /\ resp'.status # 201]_vars

====
